---- MODULE Spec2Model ----
(***************************************************************************)
(* Model of the publishing cycle of zero-touch-music: run_pipeline         *)
(* (main.py), the candidate selector and the durable state                 *)
(* (fetch_trending.py), the publish protocol (upload_youtube.py) and the   *)
(* workspace cleanup (utils.py).                                           *)
(*                                                                         *)
(* Seven specifications share the definitions below.                       *)
(*   Spec      the program as main.py calls it: one run_pipeline           *)
(*             invocation after the other.  get_trending_songs returns a   *)
(*             list and main.py:137 / main.py:193 unpack it into two       *)
(*             names, so every cycle ends in the except branch of          *)
(*             run_pipeline.                                               *)
(*   SpecWalk  the same cycle entered at the candidate walk (main.py:139 / *)
(*             main.py:195) with the selector's list and the bucket the    *)
(*             selector persisted in hand: the code of the walk, of        *)
(*             try_upload_with_retry and of the upload as written.         *)
(*   SpecSelect  get_trending_songs called on its own, on a dedup set, two *)
(*             catalog responses and a max_candidates drawn from bounded   *)
(*             sets.                                                       *)
(*   SpecKill  Spec with the process killed inside a write of a cursor     *)
(*             file.                                                       *)
(*   SpecStore mark_uploaded (fetch_trending.py) and test_write            *)
(*             (test_history.py) called on their own, one call after the   *)
(*             other.                                                      *)
(*   SpecCursor  Spec started with arbitrary content in upload_type.txt    *)
(*             and last_language.json.                                     *)
(*   SpecCycle one invocation entered at the walk, with weak fairness of   *)
(*             its steps: every call returns or fails.                     *)
(***************************************************************************)
EXTENDS Integers, Sequences, FiniteSets, TLC

(***************************************************************************)
(* Bounds of the model.                                                    *)
(***************************************************************************)
\* invocations of run_pipeline under Spec
MaxCycles == 22
\* invocations of run_pipeline under SpecWalk
MaxWalkCycles == 2
\* items in one catalog response
MaxResp == 1
\* chunks of one resumable upload
MaxChunks == 2
\* items of a catalog response when the selector is checked on its own
MaxSelResp == 2
\* invocations of run_pipeline when the process can be killed
MaxKillCycles == 4
\* calls of mark_uploaded and test_write when the state store is checked on its own
MaxStoreCalls == 4
\* the largest number upload_type.txt holds before the first invocation
MaxStoredCount == 7
\* invocations of run_pipeline on arbitrary prior cursor content
MaxCursorCycles == 2

(***************************************************************************)
(* Program constants.                                                      *)
(***************************************************************************)
\* main.py:48  next_count = (count + 1) % 5
TypePeriod == 5
\* main.py:45  upload_type = "mashup" if count == 4
MashupCount == 4
\* main.py:54  max_retries=3
max_retries == 3
\* upload_youtube.py:225
max_retry == 10
\* fetch_trending.py:115  60 <= secs <= 480
MinSecs == 60
MaxSecs == 480
\* main.py:137 and main.py:193
RegularMaxCandidates == 15
MashupMaxCandidates == 20

\* fetch_trending.py:29
LANGUAGE_ROTATION == <<"english", "hindi", "punjabi", "haryanvi">>
\* fetch_trending.py:20
BLOCKLIST == {"c5aYTMnACfk", "1FVF-9KQiPo"}
\* upload_youtube.py:226
retry_codes == {500, 502, 503, 504}

\* identifiers the catalog can return, one of them blocklisted
CatalogIds == {"a", "b", "c5aYTMnACfk"}
\* durations (seconds) of catalog items, on both sides of the window
CatalogSecs == {59, 300, 481}
\* an item of the primary chart listing: identifier and parsed duration
ChartItems == [video_id : CatalogIds, secs : CatalogSecs]

Range(s) == {s[k] : k \in 1..Len(s)}

SeqsUpTo(S, n) == UNION {[1..k -> S] : k \in 0..n}

(***************************************************************************)
(* A persisted cursor file.  upload_type.txt is modelled by an integer:    *)
(* NoFile when the file does not exist, NotDigits when its text is not     *)
(* all digits, otherwise the number it holds.                              *)
(***************************************************************************)
NoFile == -1
NotDigits == -2

\* main.py:38-42
ReadCount(file) == IF file >= 0 THEN file ELSE 0

\* main.py:45
UploadTypeOf(count) == IF count = MashupCount THEN "mashup" ELSE "regular"

\* the counter without its wrap-around
NextCountNoWrap(count) == count + 1

\* a counter with the period of the language rotation
NextCountPeriodFour(count) == (count + 1) % MashupCount

\* main.py:48
NextCount(count) == (count + 1) % TypePeriod

(***************************************************************************)
(* last_language.json is modelled by a string: "missing", "malformed", or  *)
(* the value stored under "language".                                      *)
(***************************************************************************)
\* fetch_trending.py:51-59
LastLanguage(file) == IF file \in {"missing", "malformed"} THEN "english" ELSE file

IndexOf(lang) == CHOOSE k \in 1..Len(LANGUAGE_ROTATION) : LANGUAGE_ROTATION[k] = lang

\* the rotation stepping two places instead of one
NextLanguageSkips(last) ==
    IF last \in Range(LANGUAGE_ROTATION)
    THEN LANGUAGE_ROTATION[((IndexOf(last) + 1) % Len(LANGUAGE_ROTATION)) + 1]
    ELSE "english"

\* a rotation step that keeps a name it does not know
NextLanguageTrusting(last) ==
    IF last \in Range(LANGUAGE_ROTATION)
    THEN LANGUAGE_ROTATION[(IndexOf(last) % Len(LANGUAGE_ROTATION)) + 1]
    ELSE last

\* fetch_trending.py:61-65
NextLanguage(last) ==
    IF last \in Range(LANGUAGE_ROTATION)
    THEN LANGUAGE_ROTATION[(IndexOf(last) % Len(LANGUAGE_ROTATION)) + 1]
    ELSE "english"

\* fetch_trending.py:74-82
CurrentLanguage(file) == IF file \in {"missing", "malformed"} THEN "english" ELSE file

(***************************************************************************)
(* get_trending_songs: the two catalog passes.  A response is a record:    *)
(* ok is FALSE when the query raised, items is what it returned.  A        *)
(* candidate is represented by its video_id, the only field of it that the *)
(* orchestrator and the state store key on.                                *)
(***************************************************************************)
\* fetch_trending.py:138  videoDuration="medium": the search returns items whose
\* actual duration is between four and twenty minutes
MediumMinSecs == 240
MediumMaxSecs == 1200

\* an item of the search response with the duration the catalog has for it; the
\* response itself carries none (part="snippet", fetch_trending.py:132)
SearchItems ==
    [video_id : CatalogIds,
     secs : {t \in CatalogSecs : MediumMinSecs <= t /\ t <= MediumMaxSecs}]

\* a response lists a video once
Listings(S, n) ==
    {l \in SeqsUpTo(S, n) :
        \A j, k \in 1..Len(l) : l[j].video_id = l[k].video_id => j = k}

ChartResponsesOf(n) == [ok : BOOLEAN, items : Listings(ChartItems, n)]

SearchResponsesOf(n) == [ok : BOOLEAN, items : Listings(SearchItems, n)]

ChartResponses == ChartResponsesOf(MaxResp)

SearchResponses == SearchResponsesOf(MaxResp)

RECURSIVE ChartPass(_, _, _, _, _)
\* fetch_trending.py:110-125, the loop over the chart items from index k on
ChartPass(items, k, skip, acc, maxc) ==
    IF k > Len(items) THEN acc
    ELSE IF items[k].video_id \in skip THEN ChartPass(items, k + 1, skip, acc, maxc)
    ELSE IF ~(MinSecs <= items[k].secs /\ items[k].secs <= MaxSecs)
         THEN ChartPass(items, k + 1, skip, acc, maxc)
    ELSE IF Len(acc) + 1 >= maxc THEN Append(acc, items[k].video_id)
    ELSE ChartPass(items, k + 1, skip, Append(acc, items[k].video_id), maxc)

RECURSIVE SearchPassPrepending(_, _, _, _, _)
\* a search pass that puts what it finds in front of the list
SearchPassPrepending(items, k, skip, acc, maxc) ==
    IF k > Len(items) THEN acc
    ELSE IF items[k].video_id \in skip
         THEN SearchPassPrepending(items, k + 1, skip, acc, maxc)
    ELSE IF Len(acc) + 1 >= maxc THEN <<items[k].video_id>> \o acc
    ELSE SearchPassPrepending(items, k + 1, skip, <<items[k].video_id>> \o acc, maxc)

RECURSIVE SearchPass(_, _, _, _, _)
\* fetch_trending.py:142-154, the loop over the search items from index k on
SearchPass(items, k, skip, acc, maxc) ==
    IF k > Len(items) THEN acc
    ELSE IF items[k].video_id \in skip THEN SearchPass(items, k + 1, skip, acc, maxc)
    ELSE IF Len(acc) + 1 >= maxc THEN Append(acc, items[k].video_id)
    ELSE SearchPass(items, k + 1, skip, Append(acc, items[k].video_id), maxc)

\* fetch_trending.py:89-91 and 101-159: the list get_trending_songs returns
TrendingSongs(uploaded, chart, search, maxc) ==
    LET skip == uploaded \cup BLOCKLIST
        primary == IF chart.ok THEN ChartPass(chart.items, 1, skip, <<>>, maxc) ELSE <<>>
    IN  IF Len(primary) < maxc
        THEN IF search.ok THEN SearchPass(search.items, 1, skip, primary, maxc) ELSE primary
        ELSE primary

(***************************************************************************)
(* Calls across modules.  A call binds only when the callee's signature    *)
(* accepts its arguments; Python raises TypeError otherwise, before the    *)
(* callee's body runs.                                                     *)
(***************************************************************************)
\* fetch_trending.py:162  def mark_uploaded(video_id, title="", artist="", youtube_url="")
MarkUploadedParams == <<"video_id", "title", "artist", "youtube_url">>

\* main.py:159-165: five keyword arguments
RegularCommitCall ==
    [positional |-> 0,
     keywords |-> {"video_id", "title", "artist", "youtube_url", "language"}]

\* main.py:242-243: five positional arguments
MashupCommitCall == [positional |-> 5, keywords |-> {}]

\* Python's argument binding: no surplus positional argument, every keyword a
\* parameter that no positional argument has filled.
Binds(call, params) ==
    /\ call.positional <= Len(params)
    /\ \A kw \in call.keywords :
          \E k \in 1..Len(params) : params[k] = kw /\ k > call.positional

\* main.py:137 and main.py:193: `candidates, language = get_trending_songs(...)`
\* with the list get_trending_songs returns (fetch_trending.py:159).  Two names
\* unpack only a list of two; then candidates is the first candidate's dict and
\* main.py:145 indexes one of its keys (a str) with 'title', while main.py:201
\* looks up candidates[0] in that dict.
UnpackRaises(list, type) ==
    IF Len(list) # 2 THEN "ValueError"
    ELSE IF type = "mashup" THEN "KeyError"
    ELSE "TypeError"

\* main.py:282-305: the exit code of run_pipeline for what the upload function
\* returned ("True", "False") or raised.  sys.exit(1) at main.py:286 raises
\* SystemExit, which `except Exception` does not catch.
ExitCodeOf(res) ==
    IF res = "True" THEN 0
    ELSE IF res = "False" THEN 1
    ELSE IF res = "QuotaExceededError" THEN 0
    ELSE 1

\* main.py:139 and main.py:195: the guard in front of the candidate walk
TooFew(list, type) == IF type = "mashup" THEN Len(list) < 2 ELSE Len(list) = 0

\* main.py:144 and main.py:200: the last index (1-based) the walk visits
LastIndex(list, type) == IF type = "mashup" THEN Len(list) - 1 ELSE Len(list)

\* main.py:144 and main.py:201-202, 232-236: the song the walk attempts at index k,
\* as the sequence of its source identifiers
SongAt(list, type, k) == IF type = "mashup" THEN <<list[k], list[k + 1]>> ELSE <<list[k]>>

\* main.py:159 and main.py:242-243
CommitCallOf(type) == IF type = "mashup" THEN MashupCommitCall ELSE RegularCommitCall

(***************************************************************************)
(* The chunk requests of _resumable_upload.  A failing next_chunk raises   *)
(* an HttpError with a status (quota exhaustion is a 403 whose payload     *)
(* carries the quota marker) or another exception (kind "other").          *)
(***************************************************************************)
ChunkFailures ==
    [kind : {"http"}, status : retry_codes \cup {400}, quota : {FALSE}]
    \cup {[kind |-> "http", status |-> 403, quota |-> TRUE]}
    \cup {[kind |-> "other", status |-> 0, quota |-> FALSE]}

\* a handler that sets `error` for every failure
SetsErrorAlways(f) == TRUE

\* upload_youtube.py:234-240: TRUE when the failure sets `error` (the loop goes on),
\* FALSE when it is re-raised
SetsError(f) == IF f.kind = "http" THEN f.status \in retry_codes ELSE TRUE

\* the name of the exception a re-raised chunk failure reaches the caller under
RaisedAs(f) == IF f.quota THEN "HttpError403Quota" ELSE "HttpError"

\* a retry bound that tolerates one failure more
ExhaustedLate(r) == r > max_retry + 1

\* upload_youtube.py:244: the retries are used up
Exhausted(r) == r > max_retry

\* a wait that grows by two seconds per retry
WaitLinear(r) == 2 * r

\* upload_youtube.py:246
WaitOf(r) == 2 ^ r

\* check_video_status (check_copyright, section 4.4 of the specification): the
\* classification of a published item
Verdicts == {"clear", "restricted", "blocked"}

\* main.py:107  status["blocked"]
Blocked(verdict) == verdict = "blocked"

\* utils.py:24-32
CleanedUp(files) == {}

\* fetch_trending.py:32-41: what _load_uploaded returns; an unreadable file gives
\* the empty set
LoadUploaded(file, readable) == IF readable THEN file ELSE {}

\* a history write that opens the file for writing
OverwriteEntry(h, entry) == <<entry>>

\* fetch_trending.py:199-200, test_history.py:21-29: open(HISTORY_LOG, "a") and write
AppendEntry(h, entry) == Append(h, entry)

\* process_audio.py:48
clients == <<"ios", "web", "android", "tv_embedded", "mweb">>

\* what a run of the download tool for one client gives: a file above the size
\* threshold with return code 0, a file that is too small, or a failed run
DownloadOutcomes == {"ok", "small", "failed"}

\* process_audio.py:68
Succeeded(outcome) == outcome = "ok"

\* no download under way
NoDownload == [source |-> 0, tried |-> 0, outcome |-> "none"]

\* the kind of a chunk failure: an HttpError with a status in retry_codes, an
\* HttpError with another status, an exception that is not an HttpError
FailureClass(f) ==
    IF f.kind # "http" THEN "exception"
    ELSE IF f.status \in retry_codes THEN "transient_code"
    ELSE "other_code"

\* process_audio.py:86, create_mashup.py:57: the audio artifact of a song in TEMP_DIR
AudioOf(s) == [owner |-> s, kind |-> "audio"]

\* process_audio.py:84-85, 153: the intermediate files of a song in TEMP_DIR
ScratchOf(s) == [owner |-> s, kind |-> "scratch"]

(***************************************************************************)
(* State.                                                                  *)
(***************************************************************************)
VARIABLES
    \* persisted files under output/
    uploadTypeFile,   \* upload_type.txt (main.py:28)
    languageFile,     \* last_language.json (fetch_trending.py:18)
    uploadedFile,     \* uploaded.json, the DedupSet (fetch_trending.py:16)
    history,          \* upload_history.txt, one record per entry (fetch_trending.py:17);
                      \* the cycle number stands for the timestamp
    \* the workspace and the host platform
    tempFiles,        \* files in TEMP_DIR (main.py:27)
    live,             \* songs this invocation published and has not deleted
    \* run_pipeline and the functions it calls
    cycle,            \* invocations of run_pipeline so far
    pc,               \* the place the current invocation is at
    upload_type,      \* main.py:273
    selected,         \* the list get_trending_songs returned
    candidates,       \* main.py:137 / 193
    language,         \* main.py:137 / 193
    i,                \* index into candidates (1-based), main.py:144 / 200
    song,             \* the song being attempted, as its source identifiers
    attempt,          \* main.py:62
    retry,            \* upload_youtube.py:224
    chunk,            \* chunks of the current upload sent so far
    wait,             \* upload_youtube.py:246, the sleep before the latest retry
    status,           \* main.py:105, the verdict on the song's publish, "none" before it
    downloaded,       \* _try_download: the source being fetched, the clients run so
                      \* far, what the latest run gave (process_audio.py:48-79)
    exc,              \* the exception in flight, "none" when there is none
    result,           \* what the upload function returned: "none", "True", "False"
    exitCode,         \* the process exit code, -1 while the process runs
    \* get_trending_songs called on its own
    call,             \* the dedup set read, the two catalog responses, max_candidates
    returned,         \* the list it returned
    \* bookkeeping of what happened, read by the properties only
    typeAdv,          \* writes of upload_type.txt in this cycle
    langAdv,          \* writes of last_language.json in this cycle
    typeSeq,          \* the upload type of every cycle so far
    langSeq,          \* the bucket persisted by every cycle so far
    outcome,          \* the terminal branch this cycle took
    worked,           \* candidates transformed or published so far in this cycle
    quotaAt,          \* index of the candidate whose publish hit the quota, 0 if none
    quotaSong,        \* TRUE from a quota failure of the current song until the walk leaves it
    kept,             \* identifiers whose publish this cycle verified as not blocked
    keptEarlier,      \* the same of the earlier cycles
    retried,          \* the kind of chunk failure the latest retry of this upload followed
    withdrawn,        \* identifiers of the songs this cycle deleted after a blocked verdict
    prior             \* the content of the two cursor files before the first invocation

files == <<uploadTypeFile, languageFile, uploadedFile, history>>

world == <<tempFiles, live>>

locals ==
    <<upload_type, selected, candidates, language, i, song, attempt, retry, chunk, wait, status>>

selector == <<call, returned>>

flow == <<exc, result, exitCode>>

marks == <<typeAdv, langAdv, typeSeq, langSeq, outcome, worked, quotaAt, quotaSong, kept, keptEarlier>>

vars == <<files, world, cycle, pc, locals, flow, marks, selector, downloaded, retried,
          withdrawn, prior>>

\* The state before the first invocation: no cursor, dedup or history file yet
\* (or an upload-type counter holding 0), an empty workspace.
InitRest ==
    /\ uploadedFile = {}
    /\ history = <<>>
    /\ tempFiles = {}
    /\ live = {}
    /\ cycle = 1
    /\ pc = "start"
    /\ upload_type = "none"
    /\ selected = <<>>
    /\ candidates = <<>>
    /\ language = "none"
    /\ i = 0
    /\ song = <<>>
    /\ attempt = 0
    /\ retry = 0
    /\ chunk = 0
    /\ wait = 0
    /\ status = "none"
    /\ downloaded = NoDownload
    /\ retried = "none"
    /\ returned = <<>>
    /\ exc = "none"
    /\ result = "none"
    /\ exitCode = -1
    /\ typeAdv = 0
    /\ langAdv = 0
    /\ typeSeq = <<>>
    /\ langSeq = <<>>
    /\ outcome = "none"
    /\ worked = <<>>
    /\ quotaAt = 0
    /\ quotaSong = FALSE
    /\ kept = {}
    /\ keptEarlier = {}
    /\ withdrawn = {}
    /\ prior = [count |-> uploadTypeFile, language |-> languageFile]

\* no language cursor file yet
InitCommon ==
    /\ languageFile = "missing"
    /\ InitRest

\* no call of get_trending_songs on its own
NoCall ==
    [uploaded |-> {},
     chart |-> [ok |-> FALSE, items |-> <<>>],
     search |-> [ok |-> FALSE, items |-> <<>>],
     max_candidates |-> 0]

Init ==
    /\ uploadTypeFile \in {NoFile, 0}
    /\ call = NoCall
    /\ InitCommon

\* The walk is entered with the counter missing (four regular cycles ahead) or
\* at MashupCount (a mashup cycle next), both reached by earlier invocations.
InitWalk ==
    /\ uploadTypeFile \in {NoFile, MashupCount}
    /\ call = NoCall
    /\ InitCommon

\* The calls of get_trending_songs the selector is checked on: a dedup set, the
\* two catalog responses (a video has one duration, whichever response lists it)
\* and max_candidates.
SelectorCalls ==
    {c \in [uploaded : {{}, {"a"}},
            chart : ChartResponsesOf(MaxSelResp),
            search : SearchResponsesOf(MaxSelResp),
            max_candidates : {0, 1, 2, RegularMaxCandidates}] :
        \A x \in Range(c.chart.items), y \in Range(c.search.items) :
            x.video_id = y.video_id => x.secs = y.secs}

\* get_trending_songs is about to be called on its own
InitSelect ==
    /\ uploadTypeFile = NoFile
    /\ call \in SelectorCalls
    /\ InitCommon

(***************************************************************************)
(* run_pipeline, up to the selector.                                       *)
(***************************************************************************)
\* main.py:273 with main.py:34-51
GetNextUploadType ==
    /\ pc = "start"
    /\ LET count == ReadCount(uploadTypeFile)
       IN  /\ upload_type' = UploadTypeOf(count)
           /\ uploadTypeFile' = NextCount(count)
           /\ typeSeq' = Append(typeSeq, UploadTypeOf(count))
    /\ typeAdv' = typeAdv + 1
    /\ pc' = "select"
    /\ UNCHANGED <<languageFile, uploadedFile, history, world, cycle, selector, flow>>
    /\ UNCHANGED <<selected, candidates, language, i, song, attempt, retry, chunk, wait, status>>
    /\ UNCHANGED <<langAdv, langSeq, outcome, worked, quotaAt, quotaSong, kept, keptEarlier>>
    /\ UNCHANGED <<downloaded, retried>>
    /\ UNCHANGED <<withdrawn, prior>>

\* main.py:137 / 193 with fetch_trending.py:85-159: the dedup set is read, the
\* language cursor is advanced and written, the catalog is queried
GetTrendingSongs ==
    /\ pc = "select"
    /\ \E chart \in ChartResponses, search \in SearchResponses :
          selected' = TrendingSongs(uploadedFile, chart, search,
                                    IF upload_type = "mashup" THEN MashupMaxCandidates
                                    ELSE RegularMaxCandidates)
    /\ languageFile' = NextLanguage(LastLanguage(languageFile))
    /\ langAdv' = langAdv + 1
    /\ langSeq' = Append(langSeq, NextLanguage(LastLanguage(languageFile)))
    /\ pc' = "unpack"
    /\ UNCHANGED <<uploadTypeFile, uploadedFile, history, world, cycle, selector, flow>>
    /\ UNCHANGED <<upload_type, candidates, language, i, song, attempt, retry, chunk, wait, status>>
    /\ UNCHANGED <<typeAdv, typeSeq, outcome, worked, quotaAt, quotaSong, kept, keptEarlier>>
    /\ UNCHANGED <<downloaded, retried>>
    /\ UNCHANGED <<withdrawn, prior>>

\* fetch_trending.py:85-159 called on its own with the inputs in `call`
SelectorCall ==
    /\ pc = "start"
    /\ call # NoCall
    /\ returned' = TrendingSongs(call.uploaded, call.chart, call.search, call.max_candidates)
    /\ languageFile' = NextLanguage(LastLanguage(languageFile))
    /\ pc' = "returned"
    /\ UNCHANGED <<uploadTypeFile, uploadedFile, history, world, cycle, call>>
    /\ UNCHANGED <<locals, flow, marks>>
    /\ UNCHANGED <<downloaded, retried>>
    /\ UNCHANGED <<withdrawn, prior>>

\* main.py:137 / 193: the unpacking of the returned list, and what follows it when
\* the list has two items; the exception leaves create_*_upload (neither line is
\* inside a try)
Unpack ==
    /\ pc = "unpack"
    /\ exc' = UnpackRaises(selected, upload_type)
    /\ pc' = "except"
    /\ UNCHANGED <<files, world, cycle, selector, locals, result, exitCode, marks>>
    /\ UNCHANGED <<downloaded, retried>>
    /\ UNCHANGED <<withdrawn, prior>>

\* main.py:288-305: the except branches of run_pipeline
PipelineExcept ==
    /\ pc = "except"
    /\ exitCode' = ExitCodeOf(exc)
    /\ outcome' = IF exc = "QuotaExceededError" THEN "quota_stop" ELSE "fatal"
    /\ pc' = "exited"
    /\ UNCHANGED <<files, world, cycle, selector, locals, exc, result>>
    /\ UNCHANGED <<typeAdv, langAdv, typeSeq, langSeq, worked, quotaAt, quotaSong, kept, keptEarlier>>
    /\ UNCHANGED <<downloaded, retried>>
    /\ UNCHANGED <<withdrawn, prior>>

\* main.py:282-286: the upload function returned
PipelineTail ==
    /\ pc = "tail"
    /\ exitCode' = ExitCodeOf(result)
    /\ pc' = "exited"
    /\ UNCHANGED <<files, world, cycle, selector, locals, exc, result, marks>>
    /\ UNCHANGED <<downloaded, retried>>
    /\ UNCHANGED <<withdrawn, prior>>

\* the scheduler's next invocation of main.py: a new process, the files as they are
StartCycle(bound) ==
    /\ pc = "exited"
    /\ cycle < bound
    /\ cycle' = cycle + 1
    /\ pc' = "start"
    /\ upload_type' = "none"
    /\ selected' = <<>>
    /\ candidates' = <<>>
    /\ language' = "none"
    /\ i' = 0
    /\ song' = <<>>
    /\ attempt' = 0
    /\ retry' = 0
    /\ chunk' = 0
    /\ wait' = 0
    /\ status' = "none"
    /\ exc' = "none"
    /\ result' = "none"
    /\ exitCode' = -1
    /\ typeAdv' = 0
    /\ langAdv' = 0
    /\ outcome' = "none"
    /\ worked' = <<>>
    /\ quotaAt' = 0
    /\ quotaSong' = FALSE
    /\ live' = {}
    /\ kept' = {}
    /\ keptEarlier' = keptEarlier \cup kept
    /\ UNCHANGED <<files, tempFiles, typeSeq, langSeq, selector>>
    /\ downloaded' = NoDownload
    /\ retried' = "none"
    /\ withdrawn' = {}
    /\ UNCHANGED prior

(***************************************************************************)
(* The candidate walk of create_regular_upload and create_mashup_upload.   *)
(***************************************************************************)
\* entry of the walk with the selector's list and persisted bucket:
\* main.py:139-141 / 195-197, the guard on the list
EnterWalk ==
    /\ pc = "unpack"
    /\ candidates' = selected
    /\ language' = languageFile
    /\ IF TooFew(selected, upload_type)
       THEN /\ result' = "False"
            /\ outcome' = "no_candidates"
            /\ i' = i
            /\ pc' = "tail"
       ELSE /\ i' = 1
            /\ pc' = "loop"
            /\ UNCHANGED <<result, outcome>>
    /\ UNCHANGED <<files, world, cycle, selector, exc, exitCode>>
    /\ UNCHANGED <<upload_type, selected, song, attempt, retry, chunk, wait, status>>
    /\ UNCHANGED <<typeAdv, langAdv, typeSeq, langSeq, worked, quotaAt, quotaSong, kept, keptEarlier>>
    /\ UNCHANGED <<downloaded, retried>>
    /\ UNCHANGED <<withdrawn, prior>>

\* a loop head that advances the language cursor again for every candidate
LoopHeadAdvancing ==
    /\ pc = "loop"
    /\ IF i <= LastIndex(candidates, upload_type)
       THEN /\ song' = SongAt(candidates, upload_type, i)
            /\ pc' = "process_audio"
            /\ languageFile' = NextLanguage(LastLanguage(languageFile))
            /\ langAdv' = langAdv + 1
            /\ UNCHANGED <<result, outcome>>
       ELSE /\ result' = "False"
            /\ outcome' = "exhausted"
            /\ song' = <<>>
            /\ pc' = "tail"
            /\ UNCHANGED <<languageFile, langAdv>>
    /\ quotaSong' = FALSE
    /\ status' = "none"
    /\ UNCHANGED <<uploadTypeFile, uploadedFile, history, world, cycle, selector, exc, exitCode>>
    /\ UNCHANGED <<upload_type, selected, candidates, language, i, attempt, retry, chunk, wait>>
    /\ UNCHANGED <<typeAdv, typeSeq, langSeq, worked, quotaAt, kept, keptEarlier>>
    /\ UNCHANGED <<downloaded, retried>>
    /\ UNCHANGED <<withdrawn, prior>>

\* main.py:144 / 200-202: the head of the loop; main.py:184-185 / 263-264 after it
LoopHead ==
    /\ pc = "loop"
    /\ IF i <= LastIndex(candidates, upload_type)
       THEN /\ song' = SongAt(candidates, upload_type, i)
            /\ pc' = "process_audio"
            /\ UNCHANGED <<result, outcome>>
       ELSE /\ result' = "False"
            /\ outcome' = "exhausted"
            /\ song' = <<>>
            /\ pc' = "tail"
    /\ quotaSong' = FALSE
    /\ status' = "none"
    /\ UNCHANGED <<files, world, cycle, selector, exc, exitCode>>
    /\ UNCHANGED <<upload_type, selected, candidates, language, i, attempt, retry, chunk, wait>>
    /\ UNCHANGED <<typeAdv, langAdv, typeSeq, langSeq, worked, quotaAt, kept, keptEarlier>>
    /\ UNCHANGED <<downloaded, retried>>
    /\ UNCHANGED <<withdrawn, prior>>

\* what every step of the walk below leaves alone
WalkFrame ==
    /\ UNCHANGED <<files, cycle, selector, result, exitCode>>
    /\ UNCHANGED <<upload_type, selected, candidates, language, i, song, status>>
    /\ UNCHANGED <<typeAdv, langAdv, typeSeq, langSeq, outcome>>

\* a download loop that goes on to the next client after a success
TryDownloadOn ==
    /\ pc = "process_audio"
    /\ worked' = IF downloaded = NoDownload THEN Append(worked, i) ELSE worked
    /\ \E run \in DownloadOutcomes :
          /\ downloaded' = [source |-> IF downloaded.tried = 0 THEN downloaded.source + 1
                                       ELSE downloaded.source,
                            tried |-> downloaded.tried + 1,
                            outcome |-> run]
          /\ IF downloaded.tried + 1 < Len(clients)
             THEN /\ pc' = pc
                  /\ UNCHANGED <<tempFiles, exc>>
             ELSE IF Succeeded(run)
             THEN /\ tempFiles' = tempFiles \cup {ScratchOf(song)}
                  /\ pc' = "extract"
                  /\ exc' = exc
             ELSE /\ tempFiles' = tempFiles
                  /\ exc' = "DownloadError"
                  /\ pc' = "walk_except"
    /\ WalkFrame
    /\ UNCHANGED <<live, attempt, retry, chunk, wait, quotaAt, quotaSong, kept, keptEarlier>>
    /\ retried' = retried
    /\ UNCHANGED <<withdrawn, prior>>

\* main.py:149 / 209, 217 with process_audio.py:92-101 and 42-79: one pass of the
\* loop of _try_download for the next source of the song (a mashup has two): the
\* next client is run.  A success returns to process_audio; a failed run leaves
\* no file (process_audio.py:73-74) and when it was the last client's,
\* process_audio raises DownloadError.
TryDownload ==
    /\ pc = "process_audio"
    /\ worked' = IF downloaded = NoDownload THEN Append(worked, i) ELSE worked
    /\ \E run \in DownloadOutcomes :
          /\ downloaded' = [source |-> IF downloaded.tried = 0 THEN downloaded.source + 1
                                       ELSE downloaded.source,
                            tried |-> downloaded.tried + 1,
                            outcome |-> run]
          /\ IF Succeeded(run)
             THEN /\ tempFiles' = tempFiles \cup {ScratchOf(song)}
                  /\ pc' = "extract"
                  /\ exc' = exc
             ELSE IF downloaded.tried + 1 < Len(clients)
             THEN /\ pc' = pc
                  /\ UNCHANGED <<tempFiles, exc>>
             ELSE /\ tempFiles' = tempFiles
                  /\ exc' = "DownloadError"
                  /\ pc' = "walk_except"
    /\ WalkFrame
    /\ UNCHANGED <<live, attempt, retry, chunk, wait, quotaAt, quotaSong, kept, keptEarlier>>
    /\ retried' = retried
    /\ UNCHANGED <<withdrawn, prior>>

\* process_audio.py:103-163 (and, after the second source of a mashup,
\* create_mashup.py:13-61): the downloaded source is turned into audio.  It
\* returns the audio artifact, or raises DownloadError (the extraction failed,
\* process_audio.py:118-119) or another exception, with files left behind.
ProcessAudio ==
    /\ pc = "extract"
    /\ \/ /\ downloaded.source < Len(song)
          /\ tempFiles' = tempFiles \cup {ScratchOf(song)}
          /\ downloaded' = [NoDownload EXCEPT !.source = downloaded.source]
          /\ pc' = "process_audio"
          /\ UNCHANGED <<attempt, exc>>
       \/ /\ downloaded.source = Len(song)
          /\ tempFiles' = tempFiles \cup {ScratchOf(song), AudioOf(song)}
          /\ downloaded' = NoDownload
          /\ attempt' = 0
          /\ pc' = "render"
          /\ exc' = exc
       \/ /\ tempFiles' = tempFiles \cup {ScratchOf(song)}
          /\ downloaded' = NoDownload
          /\ attempt' = attempt
          /\ exc' \in {"DownloadError", "Exception"}
          /\ pc' = "walk_except"
    /\ WalkFrame
    /\ UNCHANGED <<live, retry, chunk, wait, worked, quotaAt, quotaSong, kept, keptEarlier>>
    /\ retried' = retried
    /\ UNCHANGED <<withdrawn, prior>>

\* main.py:62-88 with create_video.py:53: one pass of the attempt loop up to the
\* upload; the render reads the audio artifact and raises when it is gone
Render ==
    /\ pc = "render"
    /\ \/ /\ AudioOf(song) \in tempFiles
          /\ pc' = "upload"
          /\ exc' = exc
       \/ /\ AudioOf(song) \in tempFiles
          /\ exc' = "Exception"
          /\ pc' = "attempt_except"
       \/ /\ AudioOf(song) \notin tempFiles
          /\ exc' = "IOError"
          /\ pc' = "attempt_except"
    /\ WalkFrame
    /\ UNCHANGED <<world, attempt, retry, chunk, wait, worked, quotaAt, quotaSong, kept, keptEarlier>>
    /\ UNCHANGED <<downloaded, retried>>
    /\ UNCHANGED <<withdrawn, prior>>

\* main.py:91 with upload_youtube.py:163-198, 222-226: credentials, the insert
\* request, the start of _resumable_upload
BeginUpload ==
    /\ pc = "upload"
    /\ \/ /\ retry' = 0
          /\ chunk' = 0
          /\ wait' = 0
          /\ pc' = "next_chunk"
          /\ exc' = exc
       \/ /\ exc' = "Exception"
          /\ pc' = "attempt_except"
          /\ UNCHANGED <<retry, chunk, wait>>
    /\ WalkFrame
    /\ UNCHANGED <<world, attempt, worked, quotaAt, quotaSong, kept, keptEarlier>>
    /\ UNCHANGED downloaded
    /\ retried' = "none"
    /\ UNCHANGED <<withdrawn, prior>>

\* a chunk loop that starts the retry count afresh after every chunk it sent
ChunkSentResetting ==
    /\ pc = "next_chunk"
    /\ \/ /\ chunk + 1 < MaxChunks
          /\ chunk' = chunk + 1
          /\ pc' = pc
          /\ retry' = 0
          /\ wait' = 0
          /\ UNCHANGED <<live, retried>>
       \/ /\ chunk' = 0
          /\ retry' = 0
          /\ wait' = 0
          /\ retried' = "none"
          /\ live' = live \cup {song}
          /\ pc' = "thumbnail"
    /\ WalkFrame
    /\ UNCHANGED <<tempFiles, attempt, exc, worked, quotaAt, quotaSong, kept, keptEarlier>>
    /\ UNCHANGED downloaded
    /\ UNCHANGED <<withdrawn, prior>>

\* upload_youtube.py:228-233: a chunk is sent; the last one returns the response
\* and the video is on the platform (upload_youtube.py:251, 198)
ChunkSent ==
    /\ pc = "next_chunk"
    /\ \/ /\ chunk + 1 < MaxChunks
          /\ chunk' = chunk + 1
          /\ pc' = pc
          /\ UNCHANGED <<live, retry, wait, retried>>
       \/ /\ chunk' = 0
          /\ retry' = 0
          /\ wait' = 0
          /\ retried' = "none"
          /\ live' = live \cup {song}
          /\ pc' = "thumbnail"
    /\ WalkFrame
    /\ UNCHANGED <<tempFiles, attempt, exc, worked, quotaAt, quotaSong, kept, keptEarlier>>
    /\ UNCHANGED downloaded
    /\ UNCHANGED <<withdrawn, prior>>

\* upload_youtube.py:234-249: a chunk request fails
ChunkFailed ==
    /\ pc = "next_chunk"
    /\ \E f \in ChunkFailures :
          IF SetsError(f)
          THEN IF Exhausted(retry + 1)
               THEN /\ exc' = "RuntimeError"
                    /\ pc' = "attempt_except"
                    /\ retry' = 0
                    /\ chunk' = 0
                    /\ wait' = 0
                    /\ retried' = "none"
                    /\ UNCHANGED <<quotaAt, quotaSong>>
               ELSE /\ retry' = retry + 1
                    /\ wait' = WaitOf(retry + 1)
                    /\ retried' = FailureClass(f)
                    /\ pc' = pc
                    /\ UNCHANGED <<exc, chunk, quotaAt, quotaSong>>
          ELSE /\ exc' = RaisedAs(f)
               /\ pc' = "attempt_except"
               /\ retry' = 0
               /\ chunk' = 0
               /\ wait' = 0
               /\ retried' = "none"
               /\ quotaAt' = IF f.quota THEN i ELSE quotaAt
               /\ quotaSong' = (f.quota \/ quotaSong)
    /\ WalkFrame
    /\ UNCHANGED <<world, attempt, worked, kept, keptEarlier>>
    /\ UNCHANGED downloaded
    /\ UNCHANGED <<withdrawn, prior>>

\* a thumbnail step after which the URL is returned at once
ThumbnailReturning ==
    /\ pc = "thumbnail"
    /\ pc' = "verify"
    /\ exc' = exc
    /\ WalkFrame
    /\ UNCHANGED <<world, attempt, retry, chunk, wait, worked, quotaAt, quotaSong, kept, keptEarlier>>
    /\ UNCHANGED <<downloaded, retried>>
    /\ UNCHANGED <<withdrawn, prior>>

\* upload_youtube.py:203-210: the thumbnail call; an HttpError is logged, any other
\* exception leaves upload_to_youtube
Thumbnail ==
    /\ pc = "thumbnail"
    /\ \/ /\ pc' = "playlist"
          /\ exc' = exc
       \/ /\ exc' = "Exception"
          /\ pc' = "attempt_except"
    /\ WalkFrame
    /\ UNCHANGED <<world, attempt, retry, chunk, wait, worked, quotaAt, quotaSong, kept, keptEarlier>>
    /\ UNCHANGED <<downloaded, retried>>
    /\ UNCHANGED <<withdrawn, prior>>

\* upload_youtube.py:213-217 with 77-148: the playlist calls; an HttpError is
\* logged, any other exception leaves upload_to_youtube; then the URL is returned
Playlist ==
    /\ pc = "playlist"
    /\ \/ /\ pc' = "verify"
          /\ exc' = exc
       \/ /\ exc' = "Exception"
          /\ pc' = "attempt_except"
    /\ WalkFrame
    /\ UNCHANGED <<world, attempt, retry, chunk, wait, worked, quotaAt, quotaSong, kept, keptEarlier>>
    /\ UNCHANGED <<downloaded, retried>>
    /\ UNCHANGED <<withdrawn, prior>>

\* main.py:105-119: check_video_status and the branch on its verdict
Verify ==
    /\ pc = "verify"
    /\ \/ \E verdict \in Verdicts :
             /\ status' = verdict
             /\ IF Blocked(verdict)
                THEN /\ pc' = "delete_video"
                     /\ UNCHANGED <<exc, kept>>
                ELSE /\ kept' = kept \cup Range(song)
                     /\ pc' = "mark_uploaded"
                     /\ exc' = exc
       \/ /\ exc' = "Exception"
          /\ pc' = "attempt_except"
          /\ UNCHANGED <<kept, status>>
    /\ UNCHANGED <<files, cycle, selector, result, exitCode>>
    /\ UNCHANGED <<upload_type, selected, candidates, language, i, song>>
    /\ UNCHANGED <<typeAdv, langAdv, typeSeq, langSeq, outcome>>
    /\ UNCHANGED <<world, attempt, retry, chunk, wait, worked, quotaAt, quotaSong, keptEarlier>>
    /\ UNCHANGED <<downloaded, retried>>
    /\ UNCHANGED <<withdrawn, prior>>

\* a blocked video that is left on the platform
DeleteVideoSkipped ==
    /\ pc = "delete_video"
    /\ i' = i + 1
    /\ attempt' = 0
    /\ pc' = "loop"
    /\ UNCHANGED <<files, world, cycle, selector, flow>>
    /\ UNCHANGED <<upload_type, selected, candidates, language, song, retry, chunk, wait, status>>
    /\ UNCHANGED marks
    /\ UNCHANGED <<downloaded, retried>>
    /\ UNCHANGED <<withdrawn, prior>>

\* a delete that also records the blocked song in the dedup set
DeleteVideoRecording ==
    /\ pc = "delete_video"
    /\ \/ /\ live' = live \ {song}
          /\ withdrawn' = withdrawn \cup Range(song)
          /\ uploadedFile' = uploadedFile \cup Range(song)
          /\ tempFiles' = IF upload_type = "mashup" THEN CleanedUp(tempFiles) ELSE tempFiles
          /\ i' = i + 1
          /\ attempt' = 0
          /\ pc' = "loop"
          /\ exc' = exc
       \/ /\ exc' = "Exception"
          /\ pc' = "attempt_except"
          /\ UNCHANGED <<live, withdrawn, uploadedFile, tempFiles, i, attempt>>
    /\ UNCHANGED <<uploadTypeFile, languageFile, history, cycle, selector, result, exitCode>>
    /\ UNCHANGED <<upload_type, selected, candidates, language, song, retry, chunk, wait, status>>
    /\ UNCHANGED marks
    /\ UNCHANGED <<downloaded, retried>>
    /\ UNCHANGED prior

\* main.py:110-111, then main.py:175-177 / 253-256: the blocked video is deleted,
\* try_upload_with_retry returns (False, None) and the walk goes to the next song
\* (after a cleanup in create_mashup_upload only)
DeleteVideo ==
    /\ pc = "delete_video"
    /\ \/ /\ live' = live \ {song}
          /\ withdrawn' = withdrawn \cup Range(song)
          /\ tempFiles' = IF upload_type = "mashup" THEN CleanedUp(tempFiles) ELSE tempFiles
          /\ i' = i + 1
          /\ attempt' = 0
          /\ pc' = "loop"
          /\ exc' = exc
       \/ /\ exc' = "Exception"
          /\ pc' = "attempt_except"
          /\ UNCHANGED <<live, withdrawn, tempFiles, i, attempt>>
    /\ UNCHANGED <<files, cycle, selector, result, exitCode>>
    /\ UNCHANGED <<upload_type, selected, candidates, language, song, retry, chunk, wait, status>>
    /\ UNCHANGED marks
    /\ UNCHANGED <<downloaded, retried>>
    /\ UNCHANGED prior

\* an except branch that drops the exception of the last attempt
AttemptExceptSwallowing ==
    /\ pc = "attempt_except"
    /\ IF attempt < max_retries - 1
       THEN /\ tempFiles' = CleanedUp(tempFiles)
            /\ attempt' = attempt + 1
            /\ exc' = "none"
            /\ pc' = "render"
       ELSE /\ pc' = "walk_except"
            /\ exc' = "none"
            /\ UNCHANGED <<tempFiles, attempt>>
    /\ WalkFrame
    /\ UNCHANGED <<live, retry, chunk, wait, worked, quotaAt, quotaSong, kept, keptEarlier>>
    /\ UNCHANGED <<downloaded, retried>>
    /\ UNCHANGED <<withdrawn, prior>>

\* main.py:121-127: the except branch of the attempt loop
AttemptExcept ==
    /\ pc = "attempt_except"
    /\ IF attempt < max_retries - 1
       THEN /\ tempFiles' = CleanedUp(tempFiles)
            /\ attempt' = attempt + 1
            /\ exc' = "none"
            /\ pc' = "render"
       ELSE /\ pc' = "walk_except"
            /\ UNCHANGED <<tempFiles, attempt, exc>>
    /\ WalkFrame
    /\ UNCHANGED <<live, retry, chunk, wait, worked, quotaAt, quotaSong, kept, keptEarlier>>
    /\ UNCHANGED <<downloaded, retried>>
    /\ UNCHANGED <<withdrawn, prior>>

\* main.py:158-174 / 240-252 with fetch_trending.py:162-215: the commit.  The call
\* raises TypeError unless it binds; when it binds, the body adds the identifier to
\* the dedup set (fetch_trending.py:174-176) and appends the history entry
\* (fetch_trending.py:181-200), once per call.
MarkUploaded ==
    /\ pc = "mark_uploaded"
    /\ IF Binds(CommitCallOf(upload_type), MarkUploadedParams)
       THEN /\ uploadedFile' = uploadedFile \cup Range(song)
            /\ history' = history \o [k \in 1..Len(song) |->
                              [timestamp |-> cycle,
                               language |-> CurrentLanguage(languageFile),
                               video_id |-> song[k],
                               url |-> song]]
            /\ tempFiles' = CleanedUp(tempFiles)
            /\ result' = "True"
            /\ outcome' = "success"
            /\ pc' = "tail"
            /\ exc' = exc
       ELSE /\ exc' = "TypeError"
            /\ pc' = "walk_except"
            /\ UNCHANGED <<uploadedFile, history, tempFiles, result, outcome>>
    /\ UNCHANGED <<uploadTypeFile, languageFile, live, cycle, selector, exitCode, locals>>
    /\ UNCHANGED <<typeAdv, langAdv, typeSeq, langSeq, worked, quotaAt, quotaSong, kept, keptEarlier>>
    /\ UNCHANGED <<downloaded, retried>>
    /\ UNCHANGED <<withdrawn, prior>>

\* an except branch that records the failed song as uploaded
WalkExceptRecording ==
    /\ pc = "walk_except"
    /\ uploadedFile' = uploadedFile \cup Range(song)
    /\ tempFiles' = CleanedUp(tempFiles)
    /\ exc' = "none"
    /\ i' = i + 1
    /\ attempt' = 0
    /\ pc' = "loop"
    /\ UNCHANGED <<uploadTypeFile, languageFile, history, live, cycle, selector, result, exitCode>>
    /\ UNCHANGED <<upload_type, selected, candidates, language, song, retry, chunk, wait, status>>
    /\ UNCHANGED marks
    /\ downloaded' = NoDownload
    /\ retried' = retried
    /\ UNCHANGED <<withdrawn, prior>>

\* an except branch that stays on the candidate that failed
WalkExceptStaying ==
    /\ pc = "walk_except"
    /\ tempFiles' = CleanedUp(tempFiles)
    /\ exc' = "none"
    /\ i' = i
    /\ attempt' = 0
    /\ pc' = "loop"
    /\ UNCHANGED <<files, live, cycle, selector, result, exitCode>>
    /\ UNCHANGED <<upload_type, selected, candidates, language, song, retry, chunk, wait, status>>
    /\ UNCHANGED marks
    /\ downloaded' = NoDownload
    /\ retried' = retried
    /\ UNCHANGED <<withdrawn, prior>>

\* main.py:179-182 / 258-261: the except branch of the walk
WalkExcept ==
    /\ pc = "walk_except"
    /\ tempFiles' = CleanedUp(tempFiles)
    /\ exc' = "none"
    /\ i' = i + 1
    /\ attempt' = 0
    /\ pc' = "loop"
    /\ UNCHANGED <<files, live, cycle, selector, result, exitCode>>
    /\ UNCHANGED <<upload_type, selected, candidates, language, song, retry, chunk, wait, status>>
    /\ UNCHANGED marks
    /\ downloaded' = NoDownload
    /\ retried' = retried
    /\ UNCHANGED <<withdrawn, prior>>

NextInvocation == StartCycle(MaxCycles)

Next ==
    \/ GetNextUploadType
    \/ GetTrendingSongs
    \/ Unpack
    \/ PipelineExcept
    \/ NextInvocation

Spec == Init /\ [][Next]_vars

NextWalkInvocation == StartCycle(MaxWalkCycles)

NextWalk ==
    \/ GetNextUploadType
    \/ GetTrendingSongs
    \/ EnterWalk
    \/ LoopHead
    \/ TryDownload
    \/ ProcessAudio
    \/ Render
    \/ BeginUpload
    \/ ChunkSent
    \/ ChunkFailed
    \/ Thumbnail
    \/ Playlist
    \/ Verify
    \/ DeleteVideo
    \/ AttemptExcept
    \/ MarkUploaded
    \/ WalkExcept
    \/ PipelineTail
    \/ NextWalkInvocation

SpecWalk == InitWalk /\ [][NextWalk]_vars

(***************************************************************************)
(* One cycle to its end.  Every step of the cycle is a call that returns   *)
(* or fails, so a cycle that can take a step eventually takes one: weak    *)
(* fairness of the cycle's steps.                                          *)
(***************************************************************************)
NextCycle ==
    \/ GetNextUploadType
    \/ GetTrendingSongs
    \/ EnterWalk
    \/ LoopHead
    \/ TryDownload
    \/ ProcessAudio
    \/ Render
    \/ BeginUpload
    \/ ChunkSent
    \/ ChunkFailed
    \/ Thumbnail
    \/ Playlist
    \/ Verify
    \/ DeleteVideo
    \/ AttemptExcept
    \/ MarkUploaded
    \/ WalkExcept
    \/ PipelineTail

SpecCycle == InitWalk /\ [][NextCycle]_vars /\ WF_vars(NextCycle)

(***************************************************************************)
(* The cursors on arbitrary prior content: SpecCursor is Spec started with *)
(* any content in the two cursor files.                                    *)
(***************************************************************************)
\* what upload_type.txt can hold before the first invocation: no file, text that
\* is not all digits (the empty file included), a counter 0..4, a larger number
CursorCounts == {NoFile, NotDigits} \cup 0..MaxStoredCount

\* what last_language.json can hold before the first invocation: no file, text
\* that is not the JSON the code reads, a language of the rotation, another name
CursorLanguages == {"missing", "malformed", "tamil"} \cup Range(LANGUAGE_ROTATION)

InitCursor ==
    /\ uploadTypeFile \in CursorCounts
    /\ languageFile \in CursorLanguages
    /\ call = NoCall
    /\ InitRest

NextCursorInvocation == StartCycle(MaxCursorCycles)

NextCursor ==
    \/ GetNextUploadType
    \/ GetTrendingSongs
    \/ Unpack
    \/ PipelineExcept
    \/ NextCursorInvocation

SpecCursor == InitCursor /\ [][NextCursor]_vars

(***************************************************************************)
(* The process killed in the middle of a write.  write_text and             *)
(* open(path, "w") truncate the file before the new content is written      *)
(* (main.py:49, fetch_trending.py:68, 46).                                  *)
(***************************************************************************)
\* main.py:49: killed after upload_type.txt was truncated
KilledWritingUploadType ==
    /\ pc = "start"
    /\ uploadTypeFile' = NotDigits
    /\ outcome' = "killed"
    /\ pc' = "exited"
    /\ UNCHANGED <<languageFile, uploadedFile, history, world, cycle, selector, locals, flow>>
    /\ UNCHANGED <<typeAdv, langAdv, typeSeq, langSeq, worked, quotaAt, quotaSong, kept, keptEarlier>>
    /\ UNCHANGED <<downloaded, retried>>
    /\ UNCHANGED <<withdrawn, prior>>

\* fetch_trending.py:68-69: killed after last_language.json was truncated
KilledWritingLanguage ==
    /\ pc = "select"
    /\ languageFile' = "malformed"
    /\ outcome' = "killed"
    /\ pc' = "exited"
    /\ UNCHANGED <<uploadTypeFile, uploadedFile, history, world, cycle, selector, locals, flow>>
    /\ UNCHANGED <<typeAdv, langAdv, typeSeq, langSeq, worked, quotaAt, quotaSong, kept, keptEarlier>>
    /\ UNCHANGED <<downloaded, retried>>
    /\ UNCHANGED <<withdrawn, prior>>

NextKillInvocation == StartCycle(MaxKillCycles)

NextKill ==
    \/ GetNextUploadType
    \/ GetTrendingSongs
    \/ Unpack
    \/ PipelineExcept
    \/ KilledWritingUploadType
    \/ KilledWritingLanguage
    \/ NextKillInvocation

SpecKill == Init /\ [][NextKill]_vars

(***************************************************************************)
(* The state store on its own: mark_uploaded called as its signature        *)
(* allows, and test_write of test_history.py, one call per invocation.      *)
(***************************************************************************)
\* fetch_trending.py:162-215
MarkUploadedCall ==
    /\ pc = "start"
    /\ cycle <= MaxStoreCalls
    /\ \E id \in CatalogIds, readable \in BOOLEAN, written \in BOOLEAN :
          /\ uploadedFile' = LoadUploaded(uploadedFile, readable) \cup {id}
          /\ history' = IF written
                        THEN AppendEntry(history,
                                         [timestamp |-> cycle,
                                          language |-> CurrentLanguage(languageFile),
                                          video_id |-> id,
                                          url |-> <<id>>])
                        ELSE history
    /\ cycle' = cycle + 1
    /\ UNCHANGED <<uploadTypeFile, languageFile, world, pc, selector, locals, flow, marks>>
    /\ UNCHANGED <<downloaded, retried>>
    /\ UNCHANGED <<withdrawn, prior>>

\* test_history.py:12-34
test_write ==
    /\ pc = "start"
    /\ cycle <= MaxStoreCalls
    /\ history' = AppendEntry(history,
                              [timestamp |-> cycle,
                               language |-> "TEST",
                               video_id |-> "TEST123",
                               url |-> <<"TEST123">>])
    /\ cycle' = cycle + 1
    /\ UNCHANGED <<uploadTypeFile, languageFile, uploadedFile, world, pc>>
    /\ UNCHANGED <<selector, locals, flow, marks, downloaded, retried>>
    /\ UNCHANGED <<withdrawn, prior>>

NextStore ==
    \/ MarkUploadedCall
    \/ test_write

SpecStore == Init /\ [][NextStore]_vars

NextSelect == SelectorCall

SpecSelect == InitSelect /\ [][NextSelect]_vars

(***************************************************************************)
(* Properties.                                                             *)
(***************************************************************************)
\* the identifiers whose publish was verified as not blocked, in this cycle or an
\* earlier one: those main.py:158 / 240 hands to the commit
Cleared == keptEarlier \cup kept

\* the history entries this cycle appended
Appended == Cardinality({k \in DOMAIN history : history[k].timestamp = cycle})

\* C1: after any sequence of completed cycles an identifier is in the persisted
\* DedupSet if and only if it was handed to the commit in a cycle whose publish was
\* verified as not blocked; no identifier of a failed or withdrawn candidate is in it.
C1_DedupIffCommitted == pc = "exited" => uploadedFile = Cleared

\* C2: once a publish attempt of the cycle has signalled quota-exceeded, no later
\* candidate of the list is transformed or published, and the cycle ends in the
\* quota-stop branch of run_pipeline.
C2_QuotaShortCircuit ==
    quotaAt # 0 =>
        /\ \A k \in Range(worked) : k <= quotaAt
        /\ pc = "exited" => outcome = "quota_stop"

\* C3: after a publish call for a song has failed with the quota-exhaustion error,
\* neither retry loop issues another upload for that song (no chunk is requested, no
\* upload is begun), and the error propagates at once: the quota error stays the
\* exception in flight until the walk has left the song.
C3_QuotaNotRetried ==
    quotaSong =>
        /\ pc \notin {"upload", "next_chunk", "thumbnail", "playlist", "verify"}
        /\ exc = "HttpError403Quota"

\* C4: an identifier whose publish an earlier cycle verified as not blocked and
\* handed to the commit is never returned as a candidate, nor published and verified
\* again, by a later cycle.
C4_NoRepeatAcrossCycles ==
    \A id \in keptEarlier : id \notin Range(selected) /\ id \notin kept

\* the fixed order of the four buckets
RoundRobin == <<"english", "hindi", "punjabi", "haryanvi">>

TimesIn(seq, m, n, b) == Cardinality({k \in m..n : seq[k] = b})

C7_UploadTypePattern ==
    /\ \A k \in 1..Len(typeSeq) :
          typeSeq[k] = IF k % 5 = 0 THEN "mashup" ELSE "regular"
    /\ \A m \in 1..Len(typeSeq) :
          m + 4 <= Len(typeSeq) =>
             /\ TimesIn(typeSeq, m, m + 4, "mashup") = 1
             /\ TimesIn(typeSeq, m, m + 4, "regular") = 4
    /\ pc = "exited" => Len(typeSeq) = cycle

\* ten cycles done, two of them mashups
C7_Witness == pc = "exited" /\ cycle >= 10 /\ typeSeq[10] = "mashup"

\* C8: a cycle in which a publish was verified as not blocked (the success branch,
\* main.py:158 / 240) has appended exactly one history entry when it ends, and a
\* cycle that ends in any other way has appended none.
C8_OneRecordPerSuccess ==
    pc = "exited" => Appended = IF kept # {} THEN 1 ELSE 0

\* the four terminal states of a cycle
Terminals == {"success", "exhausted", "quota_stop", "fatal"}

\* main.py:174 / 252, 185 / 264, 288, 297: what the upload function hands to
\* run_pipeline in each terminal state
ResultOfTerminal(t) ==
    CASE t = "success" -> "True"
      [] t = "exhausted" -> "False"
      [] t = "quota_stop" -> "QuotaExceededError"
      [] OTHER -> "Exception"

\* C9: the result code the caller of run_pipeline receives tells the four terminal
\* states apart: the code of the state this cycle ended in is the code of no other
\* terminal state.
C9_TerminalsDistinct ==
    (pc = "exited" /\ outcome \in Terminals) =>
        \A t \in Terminals \ {outcome} : ExitCodeOf(ResultOfTerminal(t)) # exitCode

\* C10: run_pipeline exits with 0 when the cycle succeeded, when the selector
\* returned no candidates and when the quota stopped it, and with a non-zero code
\* only after exhaustion or a fatal error.
C10_ExitCodes ==
    pc = "exited" =>
        /\ outcome \in {"success", "no_candidates", "quota_stop"} => exitCode = 0
        /\ exitCode # 0 => outcome \in {"exhausted", "fatal"}

\* the identifiers get_trending_songs skips (fetch_trending.py:90) in the call
SkipOf(c) == c.uploaded \cup BLOCKLIST

\* the items of both responses of the call
ItemsOf(c) == Range(c.chart.items) \cup Range(c.search.items)

\* C14: every candidate get_trending_songs returns, from the chart listing or from
\* the fallback search, is not in the dedup set read by the call, is not in
\* BLOCKLIST, and has a catalog duration within 60..480 seconds.
C14_ExclusionRules ==
    pc = "returned" =>
        \A k \in 1..Len(returned) :
            /\ returned[k] \notin call.uploaded
            /\ returned[k] \notin BLOCKLIST
            /\ \E item \in ItemsOf(call) :
                  /\ item.video_id = returned[k]
                  /\ MinSecs <= item.secs /\ item.secs <= MaxSecs

\* C15: the list get_trending_songs returns holds no identifier twice, also when
\* the chart listing and the fallback search both list the item.
C15_NoDuplicateCandidates ==
    pc = "returned" =>
        \A j, k \in 1..Len(returned) : returned[j] = returned[k] => j = k

IdsOf(items) == [k \in 1..Len(items) |-> items[k].video_id]

Truncated(list, n) == SubSeq(list, 1, IF Len(list) < n THEN Len(list) ELSE n)

\* the chart items get_trending_songs does not exclude, in listing order
ChartKept(c) ==
    LET Keeps(item) == /\ item.video_id \notin SkipOf(c)
                       /\ MinSecs <= item.secs /\ item.secs <= MaxSecs
    IN  IF c.chart.ok THEN IdsOf(SelectSeq(c.chart.items, Keeps)) ELSE <<>>

\* the search items get_trending_songs does not exclude, in search order
SearchKept(c) ==
    LET Keeps(item) == item.video_id \notin SkipOf(c)
    IN  IF c.search.ok THEN IdsOf(SelectSeq(c.search.items, Keeps)) ELSE <<>>

\* C16: get_trending_songs returns the chart items it does not exclude in their
\* listing order, followed by the search items it does not exclude in their
\* search order, truncated: the result is an initial part of that list, and it
\* stops short of the whole list only once max_candidates is reached; nothing is
\* reshuffled.
C16_RankOrderKept ==
    pc = "returned" =>
        LET all == ChartKept(call) \o SearchKept(call)
        IN  /\ returned = Truncated(all, Len(returned))
            /\ Len(returned) < Len(all) => Len(returned) >= call.max_candidates

\* a chart item and two search items are kept and max_candidates cuts the last
C16_Witness ==
    /\ pc = "returned"
    /\ Len(ChartKept(call)) = 1
    /\ Len(SearchKept(call)) = 2
    /\ call.max_candidates = 2
    /\ returned = <<ChartKept(call)[1], SearchKept(call)[1]>>
    /\ returned[1] # returned[2]

\* C17: when both catalog queries fail get_trending_songs returns an empty list,
\* and run_pipeline ends the cycle as a no-candidates outcome, with no candidate
\* transformed or published.
C17_EmptyListIsNoCandidates ==
    (pc = "exited" /\ selected = <<>>) =>
        /\ outcome = "no_candidates"
        /\ worked = <<>>

\* C18: once the selector call has been made, the orchestrator holds the returned
\* list and, as its bucket, the language that call persisted.
C18_BucketIsPersistedCursor ==
    pc \notin {"start", "select", "unpack"} =>
        /\ candidates = selected
        /\ language = languageFile

\* C11: a blocked verdict is followed by the delete of the published song and by
\* nothing else; the delete leaves the dedup set and the history as they are and
\* takes the song off the platform, and the walk goes to the next candidate.
C11_BlockedIsWithdrawn ==
    [][/\ (status' = "blocked" /\ status # "blocked") =>
              /\ pc' = "delete_video"
              /\ song \in live'
       /\ pc = "delete_video" =>
              /\ status = "blocked"
              /\ uploadedFile' = uploadedFile
              /\ history' = history
              /\ pc' \in {"loop", "attempt_except"}
              /\ pc' = "loop" => (i' = i + 1 /\ live' = live \ {song})]_vars

\* a blocked song has been deleted and the walk is at the next candidate
C11_Witness ==
    /\ pc = "loop"
    /\ status = "blocked"
    /\ i = 2
    /\ i <= LastIndex(candidates, upload_type)
    /\ song \notin live
    /\ uploadedFile = {}
    /\ history = <<>>

\* C12: in a regular cycle the first candidate whose transform, publish and
\* verdict clear is the one committed: no later candidate is attempted and the
\* dedup set gains exactly its identifier.
C12_FirstClearIsCommitted ==
    (upload_type = "regular" /\ kept # {}) =>
        /\ kept = Range(song)
        /\ pc \in {"mark_uploaded", "tail", "exited"}
        /\ pc \in {"tail", "exited"} =>
              (result = "True" /\ uploadedFile \cap Range(candidates) = kept)

\* C13: a restricted (not blocked) verdict keeps the song on the platform and
\* commits it: the identifier enters the dedup set, one history entry is
\* appended and the cycle returns success.
C13_RestrictedIsCommitted ==
    status = "restricted" =>
        /\ song \in live
        /\ pc \in {"mark_uploaded", "tail", "exited"}
        /\ pc \in {"tail", "exited"} =>
              /\ result = "True"
              /\ Range(song) \subseteq uploadedFile
              /\ Appended >= 1

RECURSIVE Doubled(_)
\* 1 doubled n times
Doubled(n) == IF n = 0 THEN 1 ELSE 2 * Doubled(n - 1)

\* C20: the wait before the retry numbered n is 2^n seconds, twice the wait
\* before it; a chunk that is sent takes no wait.
C20_BackoffDoubles ==
    [][pc = "next_chunk" =>
          /\ retry' = retry + 1 =>
                /\ wait' = Doubled(retry')
                /\ wait # 0 => wait' = 2 * wait
          /\ retry' = retry /\ pc' = "next_chunk" => wait' = wait]_vars

\* three retries of one upload with a sent chunk among them
C20_Witness == pc = "next_chunk" /\ retry = 3 /\ wait = 8 /\ chunk = 1

\* C21 as stated: a chunk request is retried only after an HttpError with a
\* status in retry_codes; every other chunk failure leaves the upload at once.
C21_OnlyTransientCodesRetried ==
    [][(pc = "next_chunk" /\ retry' = retry + 1) => retried' = "transient_code"]_vars

\* C21: a chunk request is retried after an HttpError with a status in
\* retry_codes and after an exception that is not an HttpError; an HttpError
\* with any other status leaves the upload on its first occurrence, with no
\* wait and no further chunk request.
C21_OnlyOtherCodesFatal ==
    [][pc = "next_chunk" =>
          /\ retry' = retry + 1 => retried' \in {"transient_code", "exception"}
          /\ (exc' # exc /\ exc' \in {"HttpError", "HttpError403Quota"}) =>
                (pc' = "attempt_except" /\ wait' = 0 /\ retry' = 0 /\ chunk' = 0)]_vars

\* a chunk request was retried after an exception that is not an HttpError
C21_Witness == pc = "next_chunk" /\ retried = "exception" /\ retry >= 1

\* C22: once the video is uploaded, the thumbnail and playlist steps never
\* raise: they go on to the next step and the URL is returned.
C22_BestEffortNeverFails ==
    [][(pc = "thumbnail" \/ pc = "playlist") =>
          (pc' \in {"playlist", "verify"} /\ exc' = exc)]_vars

\* C23: the stages of a publish come in order: chunk requests after the
\* upload began, the thumbnail call after the last chunk gave a video, the
\* playlist calls after the thumbnail step, the return of the URL after the
\* playlist step.
C23_StageOrder ==
    [][/\ pc' = "next_chunk" => pc \in {"upload", "next_chunk"}
       /\ pc' = "thumbnail" => (pc \in {"next_chunk", "thumbnail"} /\ song \in live')
       /\ pc' = "playlist" => pc \in {"thumbnail", "playlist"}
       /\ pc' = "verify" => (pc \in {"playlist", "verify"} /\ song \in live')]_vars

\* the URL of an uploaded video has been returned
C23_Witness == pc = "verify" /\ song \in live /\ exc = "none"

\* C24: uploaded.json and upload_history.txt change only in the commit step,
\* after a verdict that is not blocked; every other step of a cycle, whatever
\* its ending, leaves both as they are.
C24_OnlyCommitWrites ==
    [][(uploadedFile' # uploadedFile \/ history' # history) =>
          /\ pc = "mark_uploaded"
          /\ status \in {"clear", "restricted"}
          /\ pc' = "tail"]_vars

\* a cycle ended exhausted after two attempts, with both files as they were
C24_Witness ==
    /\ pc = "exited"
    /\ outcome = "exhausted"
    /\ worked = <<1, 2>>
    /\ uploadedFile = {}
    /\ history = <<>>

\* C25: TEMP_DIR is empty whenever a candidate starts and when the process
\* exits.
C25_WorkspacePurged ==
    /\ (pc = "process_audio" /\ downloaded = NoDownload) => tempFiles = {}
    /\ pc = "exited" => tempFiles = {}

\* C29: the clients are run one after the other in their order; the first run
\* that succeeds ends the download and no client is run after it; when the
\* last client's run fails too, DownloadError takes the walk to the next
\* candidate and the cycle goes on.
C29_DownloadOrder ==
    [][/\ pc = "process_audio" =>
             LET k == downloaded'.tried
             IN  /\ k = downloaded.tried + 1
                 /\ k <= Len(clients)
                 /\ IF Succeeded(downloaded'.outcome) THEN pc' = "extract"
                    ELSE IF k < Len(clients) THEN pc' = "process_audio"
                    ELSE pc' = "walk_except" /\ exc' = "DownloadError"
       /\ pc = "extract" => downloaded'.tried = 0
       /\ (pc = "walk_except" /\ exc = "DownloadError") =>
             /\ pc' = "loop"
             /\ i' = i + 1
             /\ outcome' = "none"
             /\ exitCode' = -1]_vars

\* two clients failed and the third succeeded
C29_Witness ==
    /\ pc = "extract"
    /\ downloaded.tried = 3
    /\ clients[downloaded.tried] = "android"
    /\ Succeeded(downloaded.outcome)

\* C30: a mashup cycle whose publish is verified as not blocked commits the
\* identifiers of both sources, and no other, and returns success.
C30_MashupCommitsBoth ==
    (upload_type = "mashup" /\ kept # {}) =>
        /\ kept = Range(song)
        /\ pc \in {"mark_uploaded", "tail", "exited"}
        /\ pc \in {"tail", "exited"} =>
              (result = "True" /\ uploadedFile \cap Range(candidates) = Range(song))

\* C26: whenever the process has ended, killed or not, each cursor file holds a
\* complete content: the old one or the new one, never an empty or partial one.
C26_WritesAreAtomic ==
    /\ uploadTypeFile # NotDigits
    /\ languageFile # "malformed"

\* C27: an identifier once written to uploaded.json is in it after every later
\* operation, also after a commit whose read of the file failed.
C27_DedupSetMonotone == [][uploadedFile \subseteq uploadedFile']_vars

\* C28: every write of the history leaves what was written before as a prefix
\* of the file and adds one entry after it.
C28_HistoryAppendOnly ==
    [][history' # history =>
          /\ Len(history') = Len(history) + 1
          /\ SubSeq(history', 1, Len(history)) = history]_vars

\* two commits and a test entry are in the history, in the order written
C28_Witness ==
    /\ Len(history) = 3
    /\ history[1].video_id = "a"
    /\ history[2].video_id = "TEST123"
    /\ history[3].video_id = "b"

\* the chart pass alone fills the list: the fallback search has nothing to add
ChartFills(c) == Len(ChartKept(c)) >= c.max_candidates

\* C31: for every max_candidates >= 0 get_trending_songs returns at most
\* max_candidates candidates, and the fallback search contributes only when the
\* chart pass produced fewer than max_candidates.
C31_AtMostMaxCandidates ==
    pc = "returned" =>
        /\ Len(returned) <= call.max_candidates
        /\ ChartFills(call) => returned = Truncated(ChartKept(call), Len(returned))

\* the second half of C31 on its own: a chart pass that reached max_candidates
\* is returned without any search item
C31_FallbackOnlyWhenShort ==
    pc = "returned" /\ ChartFills(call) =>
        returned = Truncated(ChartKept(call), Len(returned))

\* C32: try_upload_with_retry returns (False, None) on the first blocked verdict,
\* without publishing the song again, and (True, url) on the first verdict that is
\* not blocked; only an exception starts another render-publish-verify attempt for
\* the same song, there are at most max_retries attempts, and the exception of the
\* last attempt reaches the caller.
C32_RetryOnlyOnException ==
    [][/\ attempt' < max_retries
       /\ (attempt' # attempt /\ attempt' # 0) =>
              /\ pc = "attempt_except" /\ exc # "none"
              /\ attempt' = attempt + 1
              /\ song' = song /\ i' = i
              /\ pc' = "render"
       /\ (pc = "verify" /\ pc' # "attempt_except") =>
              /\ Blocked(status') <=> pc' = "delete_video"
              /\ ~Blocked(status') <=> pc' = "mark_uploaded"
       /\ (pc = "delete_video" /\ pc' # "attempt_except") =>
              /\ pc' = "loop" /\ i' = i + 1 /\ attempt' = 0
              /\ result' = result /\ uploadedFile' = uploadedFile
       /\ (pc = "attempt_except" /\ attempt = max_retries - 1) =>
              /\ pc' = "walk_except" /\ exc' = exc /\ exc # "none"]_vars

\* the third attempt for a song has failed and its exception is with the caller
C32_Witness ==
    /\ pc = "walk_except"
    /\ attempt = max_retries - 1
    /\ exc = "IOError"

\* the identifier is in the dedup set and has a history entry
Committed(id) ==
    /\ id \in uploadedFile
    /\ \E k \in 1..Len(history) : history[k].video_id = id

\* C33: when a cycle has ended, every song that was published in it and not
\* deleted is committed: its identifiers are in the dedup set and each has a
\* history entry, also after an exception in the verdict check, the delete or the
\* commit.
C33_NoLiveUnrecorded ==
    pc = "exited" => \A s \in live : \A id \in Range(s) : Committed(id)

\* C34: when try_upload_with_retry starts its second or third attempt for a
\* song, the processed audio it was given is still in TEMP_DIR: the cleanup between
\* the attempts removes no file the next attempt reads.
C34_AudioKeptForRetry ==
    (pc = "render" /\ attempt >= 1) => AudioOf(song) \in tempFiles

MashupsIn(m, n) == {k \in m..n : typeSeq[k] = "mashup"}

C38_RecordsAgree ==
    \A id \in uploadedFile : \E k \in 1..Len(history) : history[k].video_id = id

\* what get_trending_songs returns for a dedup set when the chart lists the one
\* song `id` with a duration inside the window
SelectedIfListed(uploaded, id) ==
    TrendingSongs(uploaded,
                  [ok |-> TRUE, items |-> <<[video_id |-> id, secs |-> 300]>>],
                  [ok |-> FALSE, items |-> <<>>],
                  RegularMaxCandidates)

\* C39: a song that was blocked and deleted is recorded nowhere: its identifier
\* is neither in the dedup set nor in BLOCKLIST from then on, up to the exit of
\* the cycle, so a selector reading these files returns it again when the catalog
\* lists it and the song can be published and deleted once more.
C39_WithdrawnStaysEligible ==
    \A id \in withdrawn :
        /\ id \notin uploadedFile
        /\ id \notin BLOCKLIST
        /\ SelectedIfListed(uploadedFile, id) = <<id>>

\* a song deleted earlier in the walk has been published again, blocked again
\* and is about to be deleted again
C39_Witness ==
    /\ pc = "delete_video"
    /\ status = "blocked"
    /\ song \in live
    /\ Range(song) \subseteq withdrawn

\* a cycle has exited with a deleted song recorded nowhere, and another
\* invocation follows
C39_WitnessExit ==
    /\ pc = "exited"
    /\ cycle < MaxWalkCycles
    /\ withdrawn # {}
    /\ uploadedFile = {}

\* the walk has attempted each index at most once, in order, and no more indexes
\* than the loop has; the attempt and chunk-retry counters are within their limits
WalkBounded ==
    /\ worked # <<>> => Len(worked) <= LastIndex(candidates, upload_type)
    /\ \A j, k \in 1..Len(worked) : j < k => worked[j] < worked[k]
    /\ attempt < max_retries
    /\ retry <= max_retry

====
